---- MODULE Spec2Model ----
(***************************************************************************)
(* A model of progettofinanza.py: a straight-line script that downloads a  *)
(* price series, draws a T x N matrix of coin flips, compounds the         *)
(* returns of every random in/out strategy and of buy-and-hold, prints     *)
(* summary statistics and saves a two-panel figure.                        *)
(*                                                                         *)
(* Numbers.  The script computes in IEEE doubles.  A number is modelled as *)
(* a pair <<n, d>>: an exact fraction n/d in lowest terms with d > 0, or   *)
(* one of the three non-finite doubles, <<1, 0>> (+inf), <<-1, 0>> (-inf)  *)
(* and <<0, 0>> (NaN).  The arithmetic follows IEEE for the non-finite     *)
(* cases (x/0, 0*inf, inf-inf, comparisons with NaN); rounding of finite   *)
(* results and the sign of zero are not modelled.                          *)
(*                                                                         *)
(* Inputs.  The quote source answers with a frame of closing prices drawn  *)
(* from PriceValues, of 0..MaxT rows; NUM_SIMULATIONS, a literal of the    *)
(* script, is read as the configured simulation count and ranges over      *)
(* SimulationCounts.  Missing prices inside the frame are not enumerated.  *)
(*                                                                         *)
(* Steps.  Statements that cannot raise and print nothing in between are   *)
(* taken in one step; each step names the lines it covers.  An uncaught    *)
(* exception ends the run at pc = "crashed" with what was bound and        *)
(* printed before the raising line.                                        *)
(***************************************************************************)
EXTENDS Integers, Sequences, FiniteSets

VARIABLES
    pc,                       \* the statement the script executes next
    error,                    \* the exception that ended the run, or "none"
    defined,                  \* the names bound so far in the module namespace
    NUM_SIMULATIONS,
    quotes,                   \* what the quote source holds for TICKER, START..END
    data,
    prices,
    market_returns,
    T,
    decision_matrix,
    simulated_daily_returns,
    equity_curves,
    benchmark_curve,
    final_values,
    benchmark_final,
    beat_benchmark,
    prob_success,
    stdout,                   \* the lines printed so far
    figure,                   \* "none", "built" (lines 81-103) or "saved" (line 104)
    run,                      \* 1 for the first execution, 2 for a repeated one
    prev_defined,             \* the names the previous execution had bound
    prev_decision_matrix,     \* the decision matrix of the previous execution
    prev_benchmark_curve      \* the benchmark curve of the previous execution

vars == <<pc, error, defined, NUM_SIMULATIONS, quotes, data, prices, market_returns, T,
          decision_matrix, simulated_daily_returns, equity_curves,
          benchmark_curve, final_values, benchmark_final, beat_benchmark,
          prob_success, stdout, figure, run, prev_defined,
          prev_decision_matrix, prev_benchmark_curve>>

(***************************************************************************)
(* Bounds of the model.                                                    *)
(***************************************************************************)
MaxT == 3

MaxN == 2

MaxRuns == 2

\* rows of the frames enumerated without a 'Close' label
MaxFallbackRows == 1

\* the closing prices the quote source may report
PriceValues == {0, 1, 2}

\* the configured simulation counts: the invalid ones (negative, zero) included
SimulationCounts == (-1)..MaxN

(***************************************************************************)
(* Doubles.                                                                *)
(***************************************************************************)
NaN == <<0, 0>>

Zero == <<0, 1>>

One == <<1, 1>>

Abs(i) == IF i < 0 THEN -i ELSE i

Sign(i) == IF i < 0 THEN -1 ELSE IF i > 0 THEN 1 ELSE 0

RECURSIVE GCD(_, _)
GCD(a, b) == IF b = 0 THEN a ELSE GCD(b, a % b)

\* the fraction n/d (d # 0) in lowest terms with a positive denominator
Rat(n, d) ==
    LET g == GCD(Abs(n), Abs(d))
        s == IF d < 0 THEN -1 ELSE 1
    IN  <<(s * n) \div g, (s * d) \div g>>

FromInt(i) == <<i, 1>>

IsNaN(x) == x = NaN

IsInf(x) == x[2] = 0 /\ x[1] # 0

IsFinite(x) == x[2] # 0

\* the sign of a number that is not NaN
SignOf(x) == Sign(x[1])

FAdd(x, y) ==
    IF IsNaN(x) \/ IsNaN(y) THEN NaN
    ELSE IF IsInf(x) /\ IsInf(y) THEN (IF x = y THEN x ELSE NaN)
    ELSE IF IsInf(x) THEN x
    ELSE IF IsInf(y) THEN y
    ELSE Rat(x[1] * y[2] + y[1] * x[2], x[2] * y[2])

FNeg(x) == <<-x[1], x[2]>>

FSub(x, y) == FAdd(x, FNeg(y))

FMul(x, y) ==
    IF IsNaN(x) \/ IsNaN(y) THEN NaN
    ELSE IF IsInf(x) \/ IsInf(y)
         THEN (IF SignOf(x) = 0 \/ SignOf(y) = 0 THEN NaN
               ELSE <<SignOf(x) * SignOf(y), 0>>)
    ELSE Rat(x[1] * y[1], x[2] * y[2])

FDiv(x, y) ==
    IF IsNaN(x) \/ IsNaN(y) THEN NaN
    ELSE IF IsInf(x) THEN (IF IsInf(y) THEN NaN
                           ELSE IF SignOf(y) < 0 THEN FNeg(x) ELSE x)
    ELSE IF IsInf(y) THEN Zero
    ELSE IF y[1] = 0 THEN (IF x[1] = 0 THEN NaN ELSE <<SignOf(x), 0>>)
    ELSE Rat(x[1] * y[2], x[2] * y[1])

\* x > y on doubles: false as soon as one side is NaN
FGt(x, y) ==
    IF IsNaN(x) \/ IsNaN(y) THEN FALSE
    ELSE IF IsInf(x) \/ IsInf(y)
         THEN (IF IsInf(x) /\ IsInf(y) THEN x[1] > y[1]
               ELSE IF IsInf(x) THEN x[1] > 0
               ELSE y[1] < 0)
    ELSE x[1] * y[2] > y[1] * x[2]

(***************************************************************************)
(* pandas and numpy operations the script calls.                           *)
(***************************************************************************)
\* Series.pct_change(): element 1 has no predecessor and is NaN
pct_change(s) ==
    [i \in 1..Len(s) |->
        IF i = 1 THEN NaN
        ELSE FSub(FDiv(FromInt(s[i]), FromInt(s[i - 1])), One)]

\* a fill that leaves the series as it is
fillna_keeps_nan(s, v) == s

\* Series.fillna(v): NaN entries replaced, every other entry (inf too) kept
fillna(s, v) == [i \in 1..Len(s) |-> IF IsNaN(s[i]) THEN v ELSE s[i]]

\* market_returns.reshape(-1, 1) * decision_matrix: row t of the decision
\* matrix scaled by market_returns[t]
broadcast_mul(r, dm) ==
    [t \in 1..Len(dm) |-> [n \in 1..Len(dm[t]) |-> FMul(r[t], FromInt(dm[t][n]))]]

\* 1 + vector
add1(s) == [i \in 1..Len(s) |-> FAdd(One, s[i])]

\* 1 + matrix
add1_matrix(m) == [t \in 1..Len(m) |-> add1(m[t])]

RECURSIVE CumProdTo(_, _)
CumProdTo(s, k) ==
    IF k = 0 THEN << >>
    ELSE IF k = 1 THEN <<s[1]>>
    ELSE LET p == CumProdTo(s, k - 1) IN Append(p, FMul(p[k - 1], s[k]))

\* np.cumprod of a vector: the running product, left to right
cumprod(s) == CumProdTo(s, Len(s))

\* the buy-and-hold curve compounded from the returns without the 1 +
benchmark_without_base(r) == cumprod(r)

\* np.cumprod(1 + market_returns)
benchmark_of(r) == cumprod(add1(r))

\* the running product along each row instead of down each column
cumprod_axis1(m) == [t \in 1..Len(m) |-> cumprod(m[t])]

RECURSIVE CumProdRowsTo(_, _)
CumProdRowsTo(m, t) ==
    IF t = 0 THEN << >>
    ELSE IF t = 1 THEN <<m[1]>>
    ELSE LET p == CumProdRowsTo(m, t - 1)
         IN  Append(p, [n \in 1..Len(m[t]) |-> FMul(p[t - 1][n], m[t][n])])

\* np.cumprod(m, axis=0): the running product down each column, every row
\* being the row above times the row of m
cumprod_axis0(m) == CumProdRowsTo(m, Len(m))

RECURSIVE SumTo(_, _)
SumTo(s, k) == IF k = 0 THEN Zero ELSE FAdd(SumTo(s, k - 1), s[k])

\* np.mean: the sum over the count; 0/0 = NaN for an empty vector
np_mean(s) == FDiv(SumTo(s, Len(s)), FromInt(Len(s)))

\* np.max of a non-empty vector: NaN as soon as one entry is NaN
np_max(s) ==
    IF \E i \in 1..Len(s) : IsNaN(s[i]) THEN NaN
    ELSE CHOOSE x \in {s[i] : i \in 1..Len(s)} :
            \A j \in 1..Len(s) : ~FGt(s[j], x)

\* np.min of a non-empty vector: NaN as soon as one entry is NaN
np_min(s) ==
    IF \E i \in 1..Len(s) : IsNaN(s[i]) THEN NaN
    ELSE CHOOSE x \in {s[i] : i \in 1..Len(s)} :
            \A j \in 1..Len(s) : ~FGt(x, s[j])

\* a count that takes a tie with the benchmark for a win
count_greater_or_equal(s, b) ==
    Cardinality({i \in 1..Len(s) : FGt(s[i], b) \/ s[i] = b})

\* np.sum(v > b): how many entries compare strictly greater
count_greater(s, b) == Cardinality({i \in 1..Len(s) : FGt(s[i], b)})

\* f"{x:.2f}": the nearest multiple of 0.01 (ties to even), or nan / inf
Format2f(x) ==
    IF IsNaN(x) THEN [text |-> "nan", cents |-> 0]
    ELSE IF IsInf(x) THEN [text |-> IF x[1] > 0 THEN "inf" ELSE "-inf", cents |-> 0]
    ELSE LET n == x[1] * 100
             q == n \div x[2]
             r == n - q * x[2]
         IN  [text |-> "f",
              cents |-> IF 2 * r < x[2] THEN q
                        ELSE IF 2 * r > x[2] THEN q + 1
                        ELSE IF q % 2 = 0 THEN q ELSE q + 1]

\* (x - 1) * 100 printed with two decimals
PercentReturn(x) == Format2f(FMul(FSub(x, One), FromInt(100)))

Line(label, value) == [label |-> label, value |-> value]

NoValue == [text |-> "", cents |-> 0]

IntValue(i) == [text |-> "int", cents |-> i]

(***************************************************************************)
(* The frames yf.download may answer with.  'Close' is a label of the      *)
(* columns of every frame yfinance builds from quotes, flat or multi-level, *)
(* so the series of 0..MaxT rows are enumerated under that layout.  A      *)
(* frame without the label has its prices in its first column, the layout  *)
(* line 26 falls back to (enumerated up to MaxFallbackRows rows), or has   *)
(* no column at all.                                                       *)
(***************************************************************************)
PriceSeries == UNION {[1..len -> PriceValues] : len \in 0..MaxT}

Frames ==
    [columns : {"Close"}, rows : PriceSeries]
        \cup [columns : {"first"}, rows : {r \in PriceSeries : Len(r) <= MaxFallbackRows}]
        \cup {[columns |-> "none", rows |-> << >>]}

DecisionMatrices(t, n) == [1..t -> [1..n -> {0, 1}]]

(***************************************************************************)
(* The script, statement by statement.                                     *)
(***************************************************************************)
Init ==
    /\ pc = "fetch"
    /\ error = "none"
    /\ defined = {"NUM_SIMULATIONS"}
    /\ NUM_SIMULATIONS \in SimulationCounts
    /\ quotes \in Frames
    /\ data = [columns |-> "none", rows |-> << >>]
    /\ prices = << >>
    /\ market_returns = << >>
    /\ T = 0
    /\ decision_matrix = << >>
    /\ simulated_daily_returns = << >>
    /\ equity_curves = << >>
    /\ benchmark_curve = << >>
    /\ final_values = << >>
    /\ benchmark_final = NaN
    /\ beat_benchmark = 0
    /\ prob_success = NaN
    /\ stdout = << >>
    /\ figure = "none"
    /\ run = 1
    /\ prev_defined = {}
    /\ prev_decision_matrix = << >>
    /\ prev_benchmark_curve = << >>

History == <<run, prev_defined, prev_decision_matrix, prev_benchmark_curve>>

Config == <<NUM_SIMULATIONS, quotes>>

\* an uncaught exception ends the script where it is raised
Raise(exc) ==
    /\ pc' = "crashed"
    /\ error' = exc

\* lines 16-17
Fetch ==
    /\ pc = "fetch"
    /\ stdout' = Append(stdout, Line("Fetching", NoValue))
    /\ data' = quotes
    /\ defined' = defined \cup {"data"}
    /\ pc' = "select"
    /\ UNCHANGED <<error, prices, market_returns, T, decision_matrix,
                   simulated_daily_returns, equity_curves, benchmark_curve,
                   final_values, benchmark_final, beat_benchmark, prob_success,
                   figure, Config, History>>

\* lines 22-26: data['Close'], else the first column, which a frame without
\* columns does not have
SelectClose ==
    /\ pc = "select"
    /\ IF data.columns = "Close" \/ data.columns = "first"
       THEN /\ prices' = data.rows
            /\ defined' = defined \cup {"prices"}
            /\ pc' = "returns"
            /\ UNCHANGED error
       ELSE /\ Raise("IndexError")
            /\ UNCHANGED <<prices, defined>>
    /\ UNCHANGED <<data, market_returns, T, decision_matrix,
                   simulated_daily_returns, equity_curves, benchmark_curve,
                   final_values, benchmark_final, beat_benchmark, prob_success,
                   stdout, figure, Config, History>>

\* line 30
Returns ==
    /\ pc = "returns"
    /\ market_returns' = fillna(pct_change(prices), Zero)
    /\ defined' = defined \cup {"market_returns"}
    /\ pc' = "horizon"
    /\ UNCHANGED <<error, data, prices, T, decision_matrix,
                   simulated_daily_returns, equity_curves, benchmark_curve,
                   final_values, benchmark_final, beat_benchmark, prob_success,
                   stdout, figure, Config, History>>

\* lines 35-38
Horizon ==
    /\ pc = "horizon"
    /\ stdout' = Append(stdout, Line("Running", IntValue(NUM_SIMULATIONS)))
    /\ T' = Len(market_returns)
    /\ defined' = defined \cup {"T"}
    /\ pc' = "decide"
    /\ UNCHANGED <<error, data, prices, market_returns, decision_matrix,
                   simulated_daily_returns, equity_curves, benchmark_curve,
                   final_values, benchmark_final, beat_benchmark, prob_success,
                   figure, Config, History>>

\* line 44: np.random.choice refuses a negative dimension; otherwise every
\* T x N matrix over {0, 1} is a possible draw of the global generator
Decide ==
    /\ pc = "decide"
    /\ IF NUM_SIMULATIONS < 0
       THEN /\ Raise("ValueError")
            /\ UNCHANGED <<decision_matrix, defined>>
       ELSE /\ decision_matrix' \in DecisionMatrices(T, NUM_SIMULATIONS)
            /\ defined' = defined \cup {"decision_matrix"}
            /\ pc' = "simulate"
            /\ UNCHANGED error
    /\ UNCHANGED <<data, prices, market_returns, T,
                   simulated_daily_returns, equity_curves, benchmark_curve,
                   final_values, benchmark_final, beat_benchmark, prob_success,
                   stdout, figure, Config, History>>

\* lines 49-56: the simulated returns, the equity curves and the benchmark
Simulate ==
    /\ pc = "simulate"
    /\ simulated_daily_returns' = broadcast_mul(market_returns, decision_matrix)
    /\ equity_curves' = cumprod_axis0(add1_matrix(simulated_daily_returns'))
    /\ benchmark_curve' = benchmark_of(market_returns)
    /\ defined' = defined \cup {"simulated_daily_returns", "equity_curves",
                                 "benchmark_curve"}
    /\ pc' = "report"
    /\ UNCHANGED <<error, data, prices, market_returns, T, decision_matrix,
                   final_values, benchmark_final, beat_benchmark, prob_success,
                   stdout, figure, Config, History>>

\* the summary without the line 68 prints
SummaryLinesWithoutMean(fv, bf) ==
    <<Line("ANALYSIS OF RANDOMNESS", NoValue),
      Line("Buy & Hold Total Return", PercentReturn(bf)),
      Line("Simulations", IntValue(NUM_SIMULATIONS)),
      Line("rule", NoValue)>>

\* the lines 64-68 print: np.mean of an empty array is NaN (0/0), printed as nan
SummaryLines(fv, bf) ==
    <<Line("ANALYSIS OF RANDOMNESS", NoValue),
      Line("Buy & Hold Total Return", PercentReturn(bf)),
      Line("Simulations", IntValue(NUM_SIMULATIONS)),
      Line("rule", NoValue),
      Line("Average Random Return", PercentReturn(np_mean(fv)))>>

\* lines 61-78.  Line 61 raises on an array without rows (index -1 is out of
\* bounds); line 69 raises on an array without columns (np.max of an empty
\* array), after lines 64-68 have printed; otherwise every statistic is
\* computed and printed.
Report ==
    /\ pc = "report"
    /\ IF Len(equity_curves) = 0
       THEN /\ Raise("IndexError")
            /\ UNCHANGED <<final_values, benchmark_final, beat_benchmark,
                           prob_success, stdout, defined>>
       ELSE /\ final_values' = equity_curves[Len(equity_curves)]
            /\ benchmark_final' = benchmark_curve[Len(benchmark_curve)]
            /\ IF Len(final_values') = 0
               THEN /\ stdout' = stdout \o SummaryLines(final_values', benchmark_final')
                    /\ Raise("ValueError")
                    /\ defined' = defined \cup {"final_values", "benchmark_final"}
                    /\ UNCHANGED <<beat_benchmark, prob_success>>
               ELSE /\ beat_benchmark' = count_greater(final_values', benchmark_final')
                    /\ prob_success' = FMul(FDiv(FromInt(beat_benchmark'),
                                                 FromInt(NUM_SIMULATIONS)),
                                            FromInt(100))
                    /\ stdout' = stdout \o SummaryLines(final_values', benchmark_final')
                          \o <<Line("Best Random Run",
                                    PercentReturn(np_max(final_values'))),
                               Line("Worst Random Run",
                                    PercentReturn(np_min(final_values'))),
                               Line("rule", NoValue),
                               Line("Probability of beating Buy & Hold",
                                    Format2f(prob_success'))>>
                    /\ defined' = defined \cup {"final_values", "benchmark_final",
                                                 "beat_benchmark", "prob_success"}
                    /\ pc' = "plot"
                    /\ UNCHANGED error
    /\ UNCHANGED <<data, prices, market_returns, T, decision_matrix,
                   simulated_daily_returns, equity_curves, benchmark_curve,
                   figure, Config, History>>

\* lines 81-103: plt.hist (line 86) cannot bin a NaN or an infinite value
BuildFigure ==
    /\ pc = "plot"
    /\ IF \E n \in 1..Len(final_values) : ~IsFinite(final_values[n])
       THEN /\ Raise("ValueError")
            /\ UNCHANGED figure
       ELSE /\ figure' = "built"
            /\ pc' = "savefig"
            /\ UNCHANGED error
    /\ UNCHANGED <<defined, data, prices, market_returns, T, decision_matrix,
                   simulated_daily_returns, equity_curves, benchmark_curve,
                   final_values, benchmark_final, beat_benchmark, prob_success,
                   stdout, Config, History>>

\* line 104: the file is written, or the file system refuses it
SaveFigure ==
    /\ pc = "savefig"
    /\ \/ /\ figure' = "saved"
          /\ pc' = "done"
          /\ UNCHANGED error
       \/ /\ Raise("OSError")
          /\ UNCHANGED figure
    /\ UNCHANGED <<defined, data, prices, market_returns, T, decision_matrix,
                   simulated_daily_returns, equity_curves, benchmark_curve,
                   final_values, benchmark_final, beat_benchmark, prob_success,
                   stdout, Config, History>>

\* the script is started again, on the same quotes and the same configuration
Rerun ==
    /\ pc \in {"done", "crashed"}
    /\ run < MaxRuns
    /\ run' = run + 1
    /\ prev_defined' = defined
    /\ prev_decision_matrix' = decision_matrix
    /\ prev_benchmark_curve' = benchmark_curve
    /\ pc' = "fetch"
    /\ error' = "none"
    /\ defined' = {"NUM_SIMULATIONS"}
    /\ data' = [columns |-> "none", rows |-> << >>]
    /\ prices' = << >>
    /\ market_returns' = << >>
    /\ T' = 0
    /\ decision_matrix' = << >>
    /\ simulated_daily_returns' = << >>
    /\ equity_curves' = << >>
    /\ benchmark_curve' = << >>
    /\ final_values' = << >>
    /\ benchmark_final' = NaN
    /\ beat_benchmark' = 0
    /\ prob_success' = NaN
    /\ stdout' = << >>
    /\ figure' = "none"
    /\ UNCHANGED Config

Next ==
    \/ Fetch
    \/ SelectClose
    \/ Returns
    \/ Horizon
    \/ Decide
    \/ Simulate
    \/ Report
    \/ BuildFigure
    \/ SaveFigure

\* one execution of the script
Spec == Init /\ [][Next]_vars

NextRerun == Next \/ Rerun

\* up to MaxRuns successive executions on the same inputs
SpecRerun == Init /\ [][NextRerun]_vars

(***************************************************************************)
(* Properties.                                                             *)
(***************************************************************************)
Bound(name) == name \in defined

Days == 1..T

Paths == 1..NUM_SIMULATIONS

AllOnes(n) == \A t \in Days : decision_matrix[t][n] = 1

MinusOne == <<-1, 1>>

\* quotes of an instrument that always closed above zero
PositiveQuotes == \A i \in 1..Len(quotes.rows) : quotes.rows[i] > 0

Printed(label) == \E i \in 1..Len(stdout) : stdout[i].label = label

PrintedValue(label) ==
    stdout[CHOOSE i \in 1..Len(stdout) : stdout[i].label = label].value

StatLabels ==
    {"Buy & Hold Total Return", "Simulations", "Average Random Return",
     "Best Random Run", "Worst Random Run", "Probability of beating Buy & Hold"}

StatisticsPrinted == \A l \in StatLabels : Printed(l)

\* C1: once line 53 has run, every column of equity_curves is the running
\* product of 1 + simulated return: row 1 is 1 + simulated_daily_returns[1],
\* and row t is row t-1 times 1 + simulated_daily_returns[t], column by column
\* (equality is identity of doubles: a NaN equals the NaN computed the same way).
C1_EquityIsRunningProduct ==
    Bound("equity_curves") =>
        /\ Len(equity_curves) = T
        /\ \A t \in Days : Len(equity_curves[t]) = NUM_SIMULATIONS
        /\ \A t \in Days : \A n \in Paths :
              equity_curves[t][n] =
                  IF t = 1 THEN FAdd(One, simulated_daily_returns[1][n])
                  ELSE FMul(equity_curves[t - 1][n],
                            FAdd(One, simulated_daily_returns[t][n]))

\* a three-day run of two paths that compound to different values, one of
\* them moving on both later days
C1_Witness ==
    /\ pc = "done"
    /\ T >= 3
    /\ NUM_SIMULATIONS >= 2
    /\ \E n \in Paths :
          /\ equity_curves[2][n] # equity_curves[1][n]
          /\ equity_curves[3][n] # equity_curves[2][n]
          /\ \E m \in Paths : equity_curves[3][m] # equity_curves[3][n]

\* C2: once line 56 has run, a column whose decisions are all 1 equals the
\* benchmark curve on every day.
C2_AllOnesColumnIsBenchmark ==
    Bound("benchmark_curve") =>
        \A n \in Paths :
            AllOnes(n) =>
                /\ Len(benchmark_curve) = T
                /\ \A t \in Days : equity_curves[t][n] = benchmark_curve[t]

\* an always-invested path over three days on which the market moved
C2_Witness ==
    /\ pc = "done"
    /\ T >= 3
    /\ \E n \in Paths :
          /\ AllOnes(n)
          /\ benchmark_curve[2] # One
          /\ benchmark_curve[3] # benchmark_curve[2]
          /\ equity_curves[3][n] = benchmark_curve[3]

\* C3: every decision is 0 or 1, and the simulated return of day t on path n
\* is 0 when the decision is 0 and market_returns[t] when it is 1.
C3_SimulatedReturnIsZeroOrMarket ==
    /\ Bound("decision_matrix") =>
          \A t \in Days : \A n \in Paths : decision_matrix[t][n] \in {0, 1}
    /\ Bound("simulated_daily_returns") =>
          \A t \in Days : \A n \in Paths :
              simulated_daily_returns[t][n] =
                  IF decision_matrix[t][n] = 0 THEN Zero ELSE market_returns[t]

\* C4: beat_benchmark counts the paths whose final value is strictly greater
\* than benchmark_final, a path that ties with the benchmark is not counted,
\* prob_success is that count over N times 100 and is what line 78 prints to
\* two decimals; one always-invested path gives 0%.
C4_BeatCountIsStrict ==
    Bound("prob_success") =>
        /\ beat_benchmark =
              Cardinality({n \in Paths : FGt(final_values[n], benchmark_final)})
        /\ beat_benchmark + Cardinality({n \in Paths : final_values[n] = benchmark_final})
              <= NUM_SIMULATIONS
        /\ prob_success = Rat(beat_benchmark * 100, NUM_SIMULATIONS)
        /\ Printed("Probability of beating Buy & Hold") =>
              PrintedValue("Probability of beating Buy & Hold") = Format2f(prob_success)
        /\ (NUM_SIMULATIONS = 1 /\ AllOnes(1)) =>
              /\ prob_success = Zero
              /\ Printed("Probability of beating Buy & Hold") =>
                    PrintedValue("Probability of beating Buy & Hold")
                        = [text |-> "f", cents |-> 0]

\* a finished run in which one path beat the benchmark and another tied with it
C4_Witness ==
    /\ pc = "done"
    /\ beat_benchmark >= 1
    /\ \E n \in Paths : AllOnes(n) /\ final_values[n] = benchmark_final
    /\ PrintedValue("Probability of beating Buy & Hold") = [text |-> "f", cents |-> 5000]

\* C5: when the quote source has no rows (the simulation count being valid) the run ends in an error before the
\* simulation: no decision matrix, no equity curve, no statistic, no figure.
C5_EmptyQuotesFailFast ==
    (Len(quotes.rows) = 0 /\ NUM_SIMULATIONS >= 1) =>
        /\ ~Bound("decision_matrix")
        /\ ~Bound("equity_curves")
        /\ \A l \in StatLabels : ~Printed(l)
        /\ figure = "none"
        /\ pc # "done"

\* C6: when NUM_SIMULATIONS <= 0 (the quotes being positive closes of two
\* days or more) the run ends before the simulation: no decision matrix is
\* built and no statistic line is printed.
C6_NonPositiveCountAborts ==
    (NUM_SIMULATIONS <= 0 /\ Len(quotes.rows) >= 2 /\ PositiveQuotes) =>
        /\ ~Bound("decision_matrix")
        /\ \A l \in StatLabels : ~Printed(l)
        /\ pc # "done"

\* C7 as stated: when the quote source has a single row (a positive close,
\* the simulation count being valid) the run ends before the simulation: no
\* decision matrix is built and no statistic is printed.
C7_SingleDayAborts ==
    (Len(quotes.rows) = 1 /\ NUM_SIMULATIONS >= 1 /\ PositiveQuotes) =>
        /\ ~Bound("decision_matrix")
        /\ \A l \in StatLabels : ~Printed(l)
        /\ pc # "done"

ZeroPercent == [text |-> "f", cents |-> 0]

\* C7 as amended: a single row is not rejected.  With a valid simulation
\* count the return series is <<0>>, the decision matrix has one row, every
\* equity value and the benchmark are 1, the statistics printed are all
\* 0.00%, and nothing but a refused write of the figure ends the run in an
\* error.
C7_SingleDayRuns ==
    (Len(quotes.rows) = 1 /\ NUM_SIMULATIONS >= 1) =>
        /\ error \in {"none", "OSError"}
        /\ Bound("market_returns") => market_returns = <<Zero>>
        /\ Bound("decision_matrix") =>
              Len(decision_matrix) = 1 /\ Len(decision_matrix[1]) = NUM_SIMULATIONS
        /\ Bound("equity_curves") =>
              /\ benchmark_curve = <<One>>
              /\ \A n \in Paths : equity_curves[1][n] = One
        /\ pc \in {"plot", "savefig", "done"} =>
              /\ benchmark_final = One
              /\ \A n \in Paths : final_values[n] = One
              /\ beat_benchmark = 0
              /\ \A l \in StatLabels \ {"Simulations"} : 
                    Printed(l) /\ PrintedValue(l) = ZeroPercent

\* a single-day run of two paths that went through to the saved figure
C7_Witness ==
    /\ Len(quotes.rows) = 1
    /\ NUM_SIMULATIONS = 2
    /\ pc = "done"
    /\ figure = "saved"
    /\ StatisticsPrinted

\* path n is invested on day t, the market return of day t is exactly -1 and
\* every return up to day t is finite
WipedOut(t, n) ==
    /\ decision_matrix[t][n] = 1
    /\ market_returns[t] = MinusOne
    /\ \A u \in 1..t : IsFinite(market_returns[u])

\* C8: a path invested on a day whose return is exactly -1 (the first day the
\* series leaves the ordinary returns) has equity 0 on that day and on every
\* later day whatever it decides later, its final value is 0, and no error of
\* the computation ends the run.
C8_WipedOutPathStaysAtZero ==
    Bound("equity_curves") =>
        \A n \in Paths : \A t \in Days :
            WipedOut(t, n) =>
                /\ \A u \in t..T : equity_curves[u][n] = Zero
                /\ Bound("final_values") => final_values[n] = Zero
                /\ error \notin {"ValueError", "IndexError"}

\* the statements of lines 81-104
RenderSteps == {"plot", "savefig"}

Statistics == <<final_values, benchmark_final, beat_benchmark, prob_success>>

\* a step taken at a rendering statement
RenderingKeepsStatistics ==
    pc \in RenderSteps =>
        (StatisticsPrinted /\ UNCHANGED stdout /\ UNCHANGED Statistics)

\* C9: a rendering statement is only attempted with every statistic line
\* printed, and no rendering statement, failing or not, changes what was
\* printed or computed.
C9_RenderingAfterStatistics == [][RenderingKeepsStatistics]_vars

\* a run whose figure could not be saved, with its statistics on the console
C9_Witness ==
    /\ pc = "crashed"
    /\ error = "OSError"
    /\ figure = "built"
    /\ StatisticsPrinted
    /\ PrintedValue("Simulations") = IntValue(2)

\* C10: two executions on the same quotes (positive closes) and the same
\* simulation count (the script takes no seed, so the seed given is the same
\* too) draw the same decision matrix, and compute the same benchmark curve.
C10_RunsAreReproducible ==
    (run = 2 /\ PositiveQuotes) =>
        /\ (Bound("decision_matrix") /\ "decision_matrix" \in prev_defined) =>
              decision_matrix = prev_decision_matrix
        /\ (Bound("benchmark_curve") /\ "benchmark_curve" \in prev_defined) =>
              benchmark_curve = prev_benchmark_curve

====
